---- MODULE Spec2Model ----
(***************************************************************************)
(* MediSync logo generator (scripts/generate_logos.py).                    *)
(*                                                                         *)
(* The generator is a single sequential batch job: main() checks that the  *)
(* source logo exists, generate_logo_sizes() opens it, resizes it to every *)
(* size of several static catalogs, and writes the PNG files and a handful *)
(* of metadata files; main() returns 0 on success and 1 on failure.        *)
(*                                                                         *)
(* A path is a sequence of components relative to the project root.  The   *)
(* file system is `fs` (path -> content, the domain being the files that   *)
(* exist) and `dirs` (the directories that exist).                         *)
(***************************************************************************)
EXTENDS Integers, Sequences, FiniteSets, TLC

VARIABLES
    pc,       \* position of the run in main() / generate_logo_sizes()
    i,        \* index of the running for-loop (1-based position in its table)
    img,      \* the image object bound to `img` (NoImage before Image.open)
    fs,       \* files on disk: path -> content
    dirs,     \* directories on disk
    rc,       \* exit codes returned by main() in this run (<<>> while it runs)
    run,      \* number of the current invocation of the generator
    fs0,      \* history: fs when the current invocation of main() started
    dirs0,    \* history: dirs when the current invocation of main() started
    log,      \* history of the current invocation (steps, writes, failure)
    par       \* SpecPar only: the two export workers and the paths they wrote

vars == <<pc, i, img, fs, dirs, rc, run, fs0, dirs0, log, par>>

(***************************************************************************)
(* Bounds.                                                                 *)
(***************************************************************************)
\* Number of successive invocations of the generator that are explored.
MaxRuns == 2

(***************************************************************************)
(* Configuration and static tables.                                        *)
(***************************************************************************)
SOURCE_LOGO == <<"public", "logo.png">>

OUTPUT_DIR == <<"public", "icons">>

\* os.path.join
Join(a, b) == a \o b

\* One entry of a name -> size table; `group` is the comment heading the entry
\* stands under in the source table.
Entry(g, n, s) == [group |-> g, name |-> n, size |-> s]

SIZES ==
    << Entry("favicon", "favicon-16x16.png", 16),
       Entry("favicon", "favicon-32x32.png", 32),
       Entry("favicon", "favicon-48x48.png", 48),
       Entry("pwa", "icon-72x72.png", 72),
       Entry("pwa", "icon-96x96.png", 96),
       Entry("pwa", "icon-128x128.png", 128),
       Entry("pwa", "icon-144x144.png", 144),
       Entry("pwa", "icon-152x152.png", 152),
       Entry("pwa", "icon-192x192.png", 192),
       Entry("pwa", "icon-384x384.png", 384),
       Entry("pwa", "icon-512x512.png", 512),
       Entry("ios", "ios-icon-60x60.png", 60),
       Entry("ios", "ios-icon-60x60@2x.png", 120),
       Entry("ios", "ios-icon-60x60@3x.png", 180),
       Entry("ios", "ios-icon-76x76.png", 76),
       Entry("ios", "ios-icon-76x76@2x.png", 152),
       Entry("ios", "ios-icon-83.5x83.5@2x.png", 167),
       Entry("android", "android-icon-36x36.png", 36),
       Entry("android", "android-icon-48x48.png", 48),
       Entry("android", "android-icon-72x72.png", 72),
       Entry("android", "android-icon-96x96.png", 96),
       Entry("android", "android-icon-144x144.png", 144),
       Entry("android", "android-icon-192x192.png", 192),
       Entry("android", "android-icon-512x512.png", 512),
       Entry("store", "app-store-icon-1024x1024.png", 1024),
       Entry("misc", "logo-64x64.png", 64),
       Entry("misc", "logo-128x128.png", 128),
       Entry("misc", "logo-256x256.png", 256),
       Entry("misc", "logo-512x512.png", 512) >>

ios_mappings ==
    << Entry("iosset", "60.png", 60),
       Entry("iosset", "60@2x.png", 120),
       Entry("iosset", "76.png", 76),
       Entry("iosset", "83.5@2x.png", 167),
       Entry("iosset", "1024.png", 1024) >>

android_sizes ==
    << Entry("mipmap", "mipmap-mdpi", 36),
       Entry("mipmap", "mipmap-hdpi", 48),
       Entry("mipmap", "mipmap-xhdpi", 72),
       Entry("mipmap", "mipmap-xxhdpi", 96),
       Entry("mipmap", "mipmap-xxxhdpi", 144),
       Entry("mipmap", "mipmap-xxxhdpi-512", 512) >>

favicon_sizes == <<16, 32, 48>>

\* One image slot of the icon-set descriptor.  "scale" : "2x" is the number 2;
\* "size" : "60x60" is a size in points, kept in tenths of a point (600 x 600)
\* because of the 83.5-point slot.
Slot(f, idiom, scale, tenths) ==
    [filename |-> f, idiom |-> idiom, scale |-> scale, size |-> <<tenths, tenths>>]

IOS_ICON_SET_CONTENT ==
    [ images |-> << Slot("60.png", "iphone", 2, 600),
                    Slot("60@2x.png", "iphone", 3, 600),
                    Slot("76.png", "ipad", 2, 760),
                    Slot("83.5@2x.png", "ipad", 2, 835),
                    Slot("1024.png", "ios-marketing", 1, 10240) >>,
      info |-> [author |-> "xcode", version |-> 1] ]

ANDROID_ADAPTIVE_ICON ==
    [ background |-> "@color/ic_launcher_background",
      foreground |-> "@mipmap/ic_launcher_foreground" ]

\* One icon of the web manifest: "src": "/icons/<name>" is the URL path
\* <<"icons", name>>, "sizes": "NxN" the pair <<N, N>>.
Icon(n, s) ==
    [src |-> <<"icons", n>>, sizes |-> <<s, s>>, type |-> "image/png", purpose |-> "any"]

\* A mutation of WEB_MANIFEST_CONTENT: an icon the size catalog was never
\* given, and one whose sizes field was not updated with its file.
WebManifestOutOfDate ==
    [ name |-> "MediSync",
      short_name |-> "MediSync",
      icons |-> << Icon("icon-72x72.png", 72),
                   Icon("icon-96x96.png", 96),
                   Icon("icon-128x128.png", 128),
                   Icon("icon-144x144.png", 144),
                   Icon("icon-152x152.png", 150),
                   Icon("icon-192x192.png", 192),
                   Icon("icon-256x256.png", 256),
                   Icon("icon-512x512.png", 512) >>,
      start_url |-> "/",
      display |-> "standalone",
      theme_color |-> "#0056D2",
      background_color |-> "#FFFFFF" ]

WEB_MANIFEST_CONTENT ==
    [ name |-> "MediSync",
      short_name |-> "MediSync",
      icons |-> << Icon("icon-72x72.png", 72),
                   Icon("icon-96x96.png", 96),
                   Icon("icon-128x128.png", 128),
                   Icon("icon-144x144.png", 144),
                   Icon("icon-152x152.png", 152),
                   Icon("icon-192x192.png", 192),
                   Icon("icon-384x384.png", 384),
                   Icon("icon-512x512.png", 512) >>,
      start_url |-> "/",
      display |-> "standalone",
      theme_color |-> "#0056D2",
      background_color |-> "#FFFFFF" ]

\* One <link> of the HTML snippet; href is a URL path.
Link(rel, s, href) == [rel |-> rel, sizes |-> <<s, s>>, href |-> href]

\* A mutation of SNIPPET_LINKS: the 152x152 touch icon links the catalog's
\* 152-pixel iOS file.
SnippetLinksAllGenerated ==
    << Link("icon", 16, <<"icons", "favicon-16x16.png">>),
       Link("icon", 32, <<"icons", "favicon-32x32.png">>),
       Link("icon", 48, <<"icons", "favicon-48x48.png">>),
       Link("apple-touch-icon", 60, <<"icons", "ios-icon-60x60.png">>),
       Link("apple-touch-icon", 60, <<"icons", "ios-icon-60x60@2x.png">>),
       Link("apple-touch-icon", 76, <<"icons", "ios-icon-76x76.png">>),
       Link("apple-touch-icon", 76, <<"icons", "ios-icon-76x76@2x.png">>),
       Link("apple-touch-icon", 152, <<"icons", "ios-icon-76x76@2x.png">>),
       Link("apple-touch-icon", 167, <<"icons", "ios-icon-83.5x83.5@2x.png">>),
       Link("apple-touch-icon", 180, <<"icons", "ios-icon-60x60@3x.png">>),
       Link("apple-touch-icon", 192, <<"icons", "icon-192x192.png">>),
       Link("icon", 512, <<"icons", "icon-512x512.png">>),
       Link("manifest", 0, <<"manifest.json">>) >>

SNIPPET_LINKS ==
    << Link("icon", 16, <<"icons", "favicon-16x16.png">>),
       Link("icon", 32, <<"icons", "favicon-32x32.png">>),
       Link("icon", 48, <<"icons", "favicon-48x48.png">>),
       Link("apple-touch-icon", 60, <<"icons", "ios-icon-60x60.png">>),
       Link("apple-touch-icon", 60, <<"icons", "ios-icon-60x60@2x.png">>),
       Link("apple-touch-icon", 76, <<"icons", "ios-icon-76x76.png">>),
       Link("apple-touch-icon", 76, <<"icons", "ios-icon-76x76@2x.png">>),
       Link("apple-touch-icon", 152, <<"icons", "ios-icon-152x152.png">>),
       Link("apple-touch-icon", 167, <<"icons", "ios-icon-83.5x83.5@2x.png">>),
       Link("apple-touch-icon", 180, <<"icons", "ios-icon-60x60@3x.png">>),
       Link("apple-touch-icon", 192, <<"icons", "icon-192x192.png">>),
       Link("icon", 512, <<"icons", "icon-512x512.png">>),
       Link("manifest", 0, <<"manifest.json">>) >>

COLORS_XML == [ic_launcher_background |-> "#0056D2"]

(***************************************************************************)
(* Paths.                                                                  *)
(***************************************************************************)
\* What the operating system makes of a path: ".." drops the component
\* before it.
RECURSIVE Norm(_, _)
Norm(seen, rest) ==
    IF rest = <<>> THEN seen
    ELSE IF Head(rest) = ".." THEN Norm(SubSeq(seen, 1, Len(seen) - 1), Tail(rest))
    ELSE Norm(Append(seen, Head(rest)), Tail(rest))

Resolve(p) == Norm(<<>>, p)

\* The directories a path walks through before its last component.
Parents(p) == { Resolve(SubSeq(p, 1, k)) : k \in 1..(Len(p) - 1) }

\* main(): project_root is the root of all paths of the model.
source_path == SOURCE_LOGO

output_dir == OUTPUT_DIR

SizePath(k) == Join(output_dir, <<SIZES[k].name>>)

ios_dir == Join(output_dir, <<"ios-iconset">>)

IosPath(k) == Join(ios_dir, <<ios_mappings[k].name>>)

contents_path == Join(ios_dir, <<"Contents.json">>)

android_dir(k) == Join(output_dir, <<"android", android_sizes[k].name>>)

LauncherPath(k) == Join(android_dir(k), <<"ic_launcher.png">>)

\* A mutation of fg_path: the bucket directory is left out of the path.
FgPathWithoutBucket(k) == Join(output_dir, <<"android", "ic_launcher_foreground.png">>)

fg_path(k) == Join(android_dir(k), <<"ic_launcher_foreground.png">>)

mipmap_anydpi == Join(output_dir, <<"android", "mipmap-anydpi-v26">>)

adaptive_path == Join(mipmap_anydpi, <<"ic_launcher.xml">>)

colors_path == Join(output_dir, <<"android", "values", "colors.xml">>)

\* os.path.dirname(colors_path)
colors_dir == SubSeq(colors_path, 1, Len(colors_path) - 1)

favicon_path == Join(output_dir, <<"favicon.ico">>)

manifest_path == Join(output_dir, <<"..", "manifest.json">>)

html_path == Join(output_dir, <<"favicon-snippet.html">>)

(***************************************************************************)
(* Imaging (PIL).                                                          *)
(***************************************************************************)
NoImage == [pix |-> 0, mode |-> "none", w |-> 0, h |-> 0, data |-> "none"]

\* Image.open: reads the header only; the pixel data is decoded on first use.
ImageOpen(file) ==
    [pix |-> file.pix, mode |-> file.mode, w |-> file.w, h |-> file.h,
     data |-> file.data]

\* img.convert('RGBA')
ConvertRGBA(im) == [im EXCEPT !.mode = "RGBA"]

\* A mutation of Resize: Image.thumbnail's rule, which keeps the aspect ratio
\* of the source.
ResizeKeepsAspect(im, size) ==
    IF im.w >= im.h
    THEN [im EXCEPT !.w = size, !.h = (size * im.h) \div im.w]
    ELSE [im EXCEPT !.w = (size * im.w) \div im.h, !.h = size]

\* img.resize((size, size), LANCZOS): exactly size x size, whatever the
\* aspect ratio of the source; the pixels are a function of the source's.
Resize(im, size) == [im EXCEPT !.w = size, !.h = size]

\* im.save(path, 'PNG')
PngFile(im) ==
    [type |-> "PNG", pix |-> im.pix, mode |-> im.mode, w |-> im.w, h |-> im.h]

\* base.save(path, format='ICO', sizes=...): the ICO writer takes the sizes
\* in ascending order, ignores every size larger than the image it saves
\* (or than 256), and writes one frame per remaining size.
IcoFile(base, sizes) ==
    [type |-> "ICO", pix |-> base.pix,
     frames |-> { s \in sizes : s[1] <= base.w /\ s[2] <= base.h
                                 /\ s[1] <= 256 /\ s[2] <= 256 }]

\* favicon_images[0] saved with sizes=[(size, size) for size in favicon_sizes]
FaviconFile(im) ==
    LET favicon_images == [k \in DOMAIN favicon_sizes |-> Resize(im, favicon_sizes[k])]
    IN  IcoFile(favicon_images[1],
                { <<favicon_sizes[k], favicon_sizes[k]>> : k \in DOMAIN favicon_sizes })

ContentsFile == [type |-> "JSON", ios |-> IOS_ICON_SET_CONTENT]

AdaptiveFile == [type |-> "XML", adaptive |-> ANDROID_ADAPTIVE_ICON]

ColorsFile == [type |-> "XML", colors |-> COLORS_XML]

ManifestFile == [type |-> "JSON", manifest |-> WEB_MANIFEST_CONTENT]

SnippetFile == [type |-> "HTML", links |-> SNIPPET_LINKS, theme |-> "#0056D2"]

(***************************************************************************)
(* File system.                                                            *)
(***************************************************************************)
\* A file that was opened for writing (created or truncated) and not
\* written completely.
Trunc == [type |-> "TRUNC"]

\* f with content c at path p (created or overwritten).
Put(f, p, c) == (p :> c) @@ f

\* A mutation of PathExists: the pre-flight check never fails.
PathExistsAlways(f, d, p) == TRUE

\* os.path.exists
PathExists(f, d, p) == p \in DOMAIN f \/ p \in d

Prefixes(p, j) == { SubSeq(p, 1, k) : k \in 1..j }

\* os.makedirs(p, exist_ok=True) creates the missing components left to
\* right.  It cannot get past a component that is a regular file.
MkReach(f, p) ==
    { j \in 0..Len(p) : \A k \in 1..j : SubSeq(p, 1, k) \notin DOMAIN f }

\* open(p, 'w') / Image.save(p): the file can be opened for writing when the
\* directories on the way exist and p is no directory.
Writable(d, p) == Parents(p) \subseteq (d \cup {<<>>}) /\ Resolve(p) \notin d

\* The outcomes of writing to p: "ok"; "eopen", the open raises and nothing
\* changes; "ewrite", the file is created or truncated and the write (or the
\* encoder) raises.
WriteOutcomes(d, p) == IF Writable(d, p) THEN {"ok", "eopen", "ewrite"} ELSE {"eopen"}

\* A mutation of WriteResult: a file that exists is kept beside the new one.
WriteResultKeepsBackup(f, p, c, out) ==
    CASE out = "ok" /\ Resolve(p) \in DOMAIN f ->
            Put(Put(f, Append(Resolve(p), "~"), f[Resolve(p)]), Resolve(p), c)
      [] out = "ok" -> Put(f, Resolve(p), c)
      [] out = "ewrite" -> Put(f, Resolve(p), Trunc)
      [] OTHER -> f

\* with open(p, 'w') as f: f.write(c).  A write that raises leaves the file
\* as open() made it.
WriteResult(f, p, c, out) ==
    CASE out = "ok" -> Put(f, Resolve(p), c)
      [] out = "ewrite" -> Put(f, Resolve(p), Trunc)
      [] OTHER -> f

\* image.save(p, ...).  When the encoder raises, Image.save removes the file
\* if the call created it; a file that was there before stays truncated.
SaveResult(f, p, c, out) ==
    CASE out = "ok" -> Put(f, Resolve(p), c)
      [] out = "ewrite" /\ Resolve(p) \in DOMAIN f -> Put(f, Resolve(p), Trunc)
      [] OTHER -> f

(***************************************************************************)
(* Control flow of one invocation.                                         *)
(***************************************************************************)
EmptyLog ==
    [ called |-> FALSE,    \* generate_logo_sizes was called
      steps |-> 0,         \* steps of generate_logo_sizes started so far
      writes |-> <<>>,     \* paths written completely, in the order written
      failed |-> 0,        \* the number of the step that raised (0: none)
      failPath |-> <<>> ]  \* the path the raising step was writing (<<>>: none)

\* The statement that follows statement l (with loop index k) in
\* generate_logo_sizes, as <<label, loop index>>.
AfterStep(l, k) ==
    CASE l = "open" -> <<"convert", 0>>
      [] l = "convert" -> <<"mkout", 0>>
      [] l = "mkout" -> <<"sizes", 1>>
      [] l = "sizes" -> IF k < Len(SIZES) THEN <<"sizes", k + 1>> ELSE <<"mkios", 0>>
      [] l = "mkios" -> <<"ios", 1>>
      [] l = "ios" -> IF k < Len(ios_mappings) THEN <<"ios", k + 1>> ELSE <<"contents", 0>>
      [] l = "contents" -> <<"android_mkdir", 1>>
      [] l = "android_mkdir" -> <<"android_launcher", k>>
      [] l = "android_launcher" -> <<"android_fg", k>>
      [] l = "android_fg" ->
            IF k < Len(android_sizes) THEN <<"android_mkdir", k + 1>> ELSE <<"mkanydpi", 0>>
      [] l = "mkanydpi" -> <<"adaptive", 0>>
      [] l = "adaptive" -> <<"mkvalues", 0>>
      [] l = "mkvalues" -> <<"colors", 0>>
      [] l = "colors" -> <<"favicon", 0>>
      [] l = "favicon" -> <<"manifest", 0>>
      [] l = "manifest" -> <<"snippet", 0>>
      [] l = "snippet" -> <<"return", 0>>
      [] OTHER -> <<"done", 0>>

\* The running step completed; p is the file it wrote (<<>>: none).
Continue(p) ==
    /\ pc' = AfterStep(pc, i)[1]
    /\ i' = AfterStep(pc, i)[2]
    /\ rc' = rc
    /\ log' = [log EXCEPT !.steps = @ + 1,
                          !.writes = IF p = <<>> THEN @ ELSE Append(@, p)]
    /\ UNCHANGED <<run, fs0, dirs0, par>>

\* A mutation of Raise: the failing entry is skipped and the pass goes on.
RaiseSkipsEntry(p) ==
    /\ pc' = AfterStep(pc, i)[1]
    /\ i' = AfterStep(pc, i)[2]
    /\ rc' = rc
    /\ log' = [log EXCEPT !.steps = @ + 1, !.failed = log.steps + 1, !.failPath = p]
    /\ UNCHANGED <<run, fs0, dirs0, par>>

\* A mutation of Raise: the handler of main() reports success.
RaiseReturnsZero(p) ==
    /\ pc' = "done"
    /\ i' = 0
    /\ rc' = Append(rc, 0)
    /\ log' = [log EXCEPT !.steps = @ + 1, !.failed = log.steps + 1, !.failPath = p]
    /\ UNCHANGED <<run, fs0, dirs0, par>>

\* The running step raised while working on p.  generate_logo_sizes has no
\* handler: the exception leaves it and main() catches it and returns 1.
Raise(p) ==
    /\ pc' = "done"
    /\ i' = 0
    /\ rc' = Append(rc, 1)
    /\ log' = [log EXCEPT !.steps = @ + 1, !.failed = log.steps + 1, !.failPath = p]
    /\ UNCHANGED <<run, fs0, dirs0, par>>

\* os.makedirs(p, exist_ok=True): j components exist when it returns or raises.
DoMakeDirs(p) ==
    \E j \in MkReach(fs, p) :
        /\ dirs' = dirs \cup Prefixes(p, j)
        /\ UNCHANGED <<fs, img>>
        /\ IF j = Len(p) THEN Continue(<<>>) ELSE Raise(<<>>)

\* image.save(p, ...)
DoSave(p, c) ==
    \E out \in WriteOutcomes(dirs, p) :
        /\ fs' = SaveResult(fs, p, c, out)
        /\ UNCHANGED <<dirs, img>>
        /\ IF out = "ok" THEN Continue(Resolve(p)) ELSE Raise(Resolve(p))

\* with open(p, 'w') as f: f.write(c)
DoWrite(p, c) ==
    \E out \in WriteOutcomes(dirs, p) :
        /\ fs' = WriteResult(fs, p, c, out)
        /\ UNCHANGED <<dirs, img>>
        /\ IF out = "ok" THEN Continue(Resolve(p)) ELSE Raise(Resolve(p))

\* A step that raises before it touches the disk (decoding, resizing).
DoRaiseEarly ==
    /\ UNCHANGED <<fs, dirs, img>>
    /\ Raise(<<>>)

\* resized = img.resize((size, size), LANCZOS); resized.save(p, 'PNG').
\* The first resize decodes the pixel data if nothing did before.
DoExport(p, size) ==
    IF img.data # "ok" THEN DoRaiseEarly
    ELSE \/ DoRaiseEarly
         \/ DoSave(p, PngFile(Resize(img, size)))

(***************************************************************************)
(* main() and generate_logo_sizes(), one action per statement.             *)
(***************************************************************************)
\* main(): the pre-flight check, then the call of generate_logo_sizes.
MainCheck ==
    /\ pc = "main"
    /\ UNCHANGED <<fs, dirs, img, i, run, fs0, dirs0, par>>
    /\ IF ~PathExists(fs, dirs, source_path)
       THEN /\ pc' = "done"
            /\ rc' = Append(rc, 1)
            /\ log' = log
       ELSE /\ pc' = "open"
            /\ rc' = rc
            /\ log' = [log EXCEPT !.called = TRUE]

\* Image.open(source_path)
OpenSource ==
    /\ pc = "open"
    /\ UNCHANGED <<fs, dirs>>
    /\ IF source_path \in DOMAIN fs /\ fs[source_path].type = "IMG"
          /\ fs[source_path].header = "ok"
       THEN \/ img' = ImageOpen(fs[source_path]) /\ Continue(<<>>)
            \/ img' = img /\ Raise(<<>>)
       ELSE img' = img /\ Raise(<<>>)

\* if img.mode != 'RGBA': img = img.convert('RGBA')
Convert ==
    /\ pc = "convert"
    /\ UNCHANGED <<fs, dirs>>
    /\ IF img.mode = "RGBA" THEN img' = img /\ Continue(<<>>)
       ELSE IF img.data # "ok" THEN img' = img /\ Raise(<<>>)
       ELSE \/ img' = ConvertRGBA(img) /\ Continue(<<>>)
            \/ img' = img /\ Raise(<<>>)

MkOutputDir == pc = "mkout" /\ DoMakeDirs(output_dir)

ExportSize == pc = "sizes" /\ DoExport(SizePath(i), SIZES[i].size)

MkIosDir == pc = "mkios" /\ DoMakeDirs(ios_dir)

ExportIos == pc = "ios" /\ DoExport(IosPath(i), ios_mappings[i].size)

WriteContents == pc = "contents" /\ DoWrite(contents_path, ContentsFile)

AndroidMkdir == pc = "android_mkdir" /\ DoMakeDirs(android_dir(i))

AndroidLauncher ==
    pc = "android_launcher" /\ DoExport(LauncherPath(i), android_sizes[i].size)

\* resized.save(fg_path, 'PNG'): the image resized for ic_launcher.png again
AndroidForeground ==
    pc = "android_fg" /\ DoSave(fg_path(i), PngFile(Resize(img, android_sizes[i].size)))

MkAnydpi == pc = "mkanydpi" /\ DoMakeDirs(mipmap_anydpi)

WriteAdaptive == pc = "adaptive" /\ DoWrite(adaptive_path, AdaptiveFile)

MkValues == pc = "mkvalues" /\ DoMakeDirs(colors_dir)

WriteColors == pc = "colors" /\ DoWrite(colors_path, ColorsFile)

Favicon ==
    /\ pc = "favicon"
    /\ \/ DoRaiseEarly
       \/ DoSave(favicon_path, FaviconFile(img))

WriteManifest == pc = "manifest" /\ DoWrite(manifest_path, ManifestFile)

WriteSnippet == pc = "snippet" /\ DoWrite(html_path, SnippetFile)

\* generate_logo_sizes returned: main() returns 0.
Return0 ==
    /\ pc = "return"
    /\ pc' = "done"
    /\ rc' = Append(rc, 0)
    /\ UNCHANGED <<i, img, fs, dirs, log, run, fs0, dirs0, par>>

\* One step of the running invocation.
RunStep ==
    \/ MainCheck \/ OpenSource \/ Convert \/ MkOutputDir \/ ExportSize
    \/ MkIosDir \/ ExportIos \/ WriteContents
    \/ AndroidMkdir \/ AndroidLauncher \/ AndroidForeground
    \/ MkAnydpi \/ WriteAdaptive \/ MkValues \/ WriteColors
    \/ Favicon \/ WriteManifest \/ WriteSnippet \/ Return0

(***************************************************************************)
(* The outputs of a complete pass, in program order.                       *)
(***************************************************************************)
\* The two files of android bucket (k + 1) \div 2: ic_launcher.png, then
\* ic_launcher_foreground.png.
AndroidPath(k) == IF k % 2 = 1 THEN LauncherPath((k + 1) \div 2) ELSE fg_path(k \div 2)

OutputOrder ==
    [k \in 1..Len(SIZES) |-> SizePath(k)]
    \o [k \in 1..Len(ios_mappings) |-> IosPath(k)]
    \o <<contents_path>>
    \o [k \in 1..(2 * Len(android_sizes)) |-> AndroidPath(k)]
    \o <<adaptive_path, colors_path, favicon_path, Resolve(manifest_path), html_path>>

\* What a complete pass over image im leaves in each file of OutputOrder.
OutputContent(im) ==
    [k \in 1..Len(SIZES) |-> PngFile(Resize(im, SIZES[k].size))]
    \o [k \in 1..Len(ios_mappings) |-> PngFile(Resize(im, ios_mappings[k].size))]
    \o <<ContentsFile>>
    \o [k \in 1..(2 * Len(android_sizes)) |->
            PngFile(Resize(im, android_sizes[(k + 1) \div 2].size))]
    \o <<AdaptiveFile, ColorsFile, FaviconFile(im), ManifestFile, SnippetFile>>

Range(s) == { s[k] : k \in DOMAIN s }

\* f after writing cs[k] to ps[k] for k = 1, 2, ... in this order.
RECURSIVE PutAll(_, _, _)
PutAll(f, ps, cs) ==
    IF ps = <<>> THEN f ELSE PutAll(Put(f, Head(ps), Head(cs)), Tail(ps), Tail(cs))

\* The directories the pass creates.
OutputDirs == UNION { Prefixes(p, Len(p) - 1) : p \in Range(OutputOrder) }

(***************************************************************************)
(* Initial states: the source logo and what earlier runs left behind.      *)
(***************************************************************************)
SrcFile(mode, w, h, header, data) ==
    [type |-> "IMG", pix |-> 1, mode |-> mode, w |-> w, h |-> h,
     header |-> header, data |-> data]

\* Source files: square and not, with and without alpha channel, with pixel
\* data that does not decode, and a file that is no image at all.
Sources ==
    << SrcFile("RGBA", 1024, 1024, "ok", "ok"),
       SrcFile("RGB", 1024, 1024, "ok", "ok"),
       SrcFile("RGBA", 1024, 512, "ok", "ok"),
       SrcFile("RGBA", 1024, 1024, "ok", "bad"),
       SrcFile("RGB", 1024, 1024, "ok", "bad"),
       SrcFile("none", 0, 0, "bad", "bad") >>

\* The logo an earlier run worked from.
OldImage == [pix |-> 2, mode |-> "RGBA", w |-> 512, h |-> 512, data |-> "ok"]

Other == [type |-> "OTHER"]

\* Output trees before the first run: nothing; the complete tree of a run
\* over another logo; the leftovers of an aborted run beside a file of the
\* user's; a regular file where the pass wants a directory.
Trees ==
    << [fs |-> <<>>, dirs |-> {}],
       [fs |-> PutAll(<<>>, OutputOrder, OutputContent(OldImage)), dirs |-> OutputDirs],
       [fs |-> PutAll(<<>>, <<SizePath(1), SizePath(2), Join(output_dir, <<"notes.txt">>)>>,
                      <<PngFile(Resize(OldImage, SIZES[1].size)), Trunc, Other>>),
        dirs |-> Prefixes(output_dir, Len(output_dir))],
       [fs |-> PutAll(<<>>, <<Join(output_dir, <<"android">>)>>, <<Other>>),
        dirs |-> Prefixes(output_dir, Len(output_dir))] >>

Idle == [lo |-> 0, hi |-> 0, a |-> 0, b |-> 0, wrote |-> {}]

Init ==
    /\ pc = "main"
    /\ i = 0
    /\ img = NoImage
    /\ rc = <<>>
    /\ run = 1
    /\ log = EmptyLog
    /\ par = Idle
    /\ \E t \in DOMAIN Trees, s \in DOMAIN Sources, present \in BOOLEAN :
          /\ fs = IF present THEN Put(Trees[t].fs, source_path, Sources[s]) ELSE Trees[t].fs
          /\ dirs = IF present
                    THEN Trees[t].dirs \cup Prefixes(source_path, Len(source_path) - 1)
                    ELSE Trees[t].dirs
    /\ fs0 = fs
    /\ dirs0 = dirs

\* The generator is invoked again after a successful run.
Rerun ==
    /\ pc = "done"
    /\ rc = <<0>>
    /\ run < MaxRuns
    /\ pc' = "main"
    /\ i' = 0
    /\ img' = NoImage
    /\ rc' = <<>>
    /\ run' = run + 1
    /\ log' = EmptyLog
    /\ fs0' = fs
    /\ dirs0' = dirs
    /\ UNCHANGED <<fs, dirs, par>>

Next == RunStep \/ Rerun

Spec == Init /\ [][Next]_vars

(***************************************************************************)
(* Properties of the sequential run.                                       *)
(***************************************************************************)
Returned == pc = "done"

Success == Returned /\ rc = <<0>>

\* The source path named a file or a directory when main() started.
SourceExisted == source_path \in DOMAIN fs0 \/ source_path \in dirs0

IsSquarePng(p, n) ==
    p \in DOMAIN fs /\ fs[p].type = "PNG" /\ fs[p].w = n /\ fs[p].h = n

\* C1: after main() returns 0, every entry of SIZES, of ios_mappings (under
\* ios-iconset/) and both launcher files of every android_sizes bucket exist
\* and measure exactly size x size pixels; no entry is skipped.
C1_EveryEntryExported ==
    Success =>
        /\ \A k \in DOMAIN SIZES : IsSquarePng(SizePath(k), SIZES[k].size)
        /\ \A k \in DOMAIN ios_mappings : IsSquarePng(IosPath(k), ios_mappings[k].size)
        /\ \A k \in DOMAIN android_sizes :
              /\ IsSquarePng(LauncherPath(k), android_sizes[k].size)
              /\ IsSquarePng(fg_path(k), android_sizes[k].size)

\* A first run over a source that is not square, into a tree without icons.
C1_Witness ==
    /\ Success
    /\ fs[source_path].w # fs[source_path].h
    /\ SizePath(1) \notin DOMAIN fs0
    /\ IsSquarePng(LauncherPath(Len(android_sizes)), 512)

\* C2: if the source path does not exist when main() runs, main() returns 1
\* without calling generate_logo_sizes and leaves the file system as it was:
\* no directory created, no file written.
C2_MissingSourceTouchesNothing ==
    (Returned /\ ~SourceExisted) =>
        /\ rc = <<1>>
        /\ ~log.called
        /\ log.steps = 0
        /\ fs = fs0
        /\ dirs = dirs0

\* main() returned for a missing source, beside the tree of an earlier run.
C2_Witness ==
    /\ Returned
    /\ ~SourceExisted
    /\ favicon_path \in DOMAIN fs0

\* C3: main() returns 0 exactly when the source exists and every step of
\* generate_logo_sizes completed without raising, and 1 in every other run;
\* a run that has not returned can take a step, and a run that has returned
\* has returned exactly one of the two codes.
C3_ExitCode ==
    /\ Returned =>
          /\ rc \in {<<0>>, <<1>>}
          /\ rc = <<0>> => /\ SourceExisted
                           /\ log.called
                           /\ log.failed = 0
                           /\ log.writes = OutputOrder
          /\ (SourceExisted /\ log.failed = 0) => rc = <<0>>
    /\ ~Returned => rc = <<>> /\ ENABLED RunStep

\* A run that got as far as the favicon and failed there.
C3_Witness ==
    /\ Returned
    /\ rc = <<1>>
    /\ log.failed # 0
    /\ log.failPath = favicon_path

\* What the run has written completely is the first outputs of the program
\* order, each with the content the pass gives it.
WritesArePrefix ==
    /\ Len(log.writes) <= Len(OutputOrder)
    /\ log.writes = SubSeq(OutputOrder, 1, Len(log.writes))
    /\ \A k \in 1..Len(log.writes) :
          /\ OutputOrder[k] \in DOMAIN fs
          /\ fs[OutputOrder[k]] = OutputContent(img)[k]

Unchanged(p) ==
    /\ p \in DOMAIN fs <=> p \in DOMAIN fs0
    /\ p \in DOMAIN fs => fs[p] = fs0[p]

SourceDecodes ==
    /\ source_path \in DOMAIN fs0
    /\ fs0[source_path].header = "ok"
    /\ fs0[source_path].data = "ok"

\* C4 as stated: if step k fails, no later step runs, the run exits with 1,
\* and the set of output files on disk is exactly the set written by the
\* steps before k (beside the files that were there before the run).
C4_AsStated ==
    log.failed # 0 =>
        /\ Returned
        /\ rc = <<1>>
        /\ log.steps = log.failed
        /\ WritesArePrefix
        /\ DOMAIN fs = DOMAIN fs0 \cup Range(log.writes)

\* C4, amended: if step k fails, no later step runs, the run exits with 1,
\* the files written by the steps before k are on disk complete, and every
\* other path is as it was before the run, except that the file the failing
\* step was writing may be left created or truncated; a source that does not
\* decode leaves every file as it was.
C4_AbortKeepsPrefix ==
    log.failed # 0 =>
        /\ Returned
        /\ rc = <<1>>
        /\ log.steps = log.failed
        /\ WritesArePrefix
        /\ \A p \in (DOMAIN fs \cup DOMAIN fs0) \ Range(log.writes) :
              \/ Unchanged(p)
              \/ p = log.failPath /\ p \in DOMAIN fs /\ fs[p] = Trunc
        /\ ~SourceDecodes => fs = fs0

\* A run that failed in the middle of the catalog while writing a new file.
C4_Witness ==
    /\ log.failed # 0
    /\ Len(log.writes) > Len(SIZES)
    /\ log.failPath \in DOMAIN fs
    /\ log.failPath \notin DOMAIN fs0
    /\ fs[log.failPath] = Trunc

\* C5: after a successful run favicon.ico holds exactly three frames, of
\* 16x16, 32x32 and 48x48 pixels.
C5_FaviconThreeFrames ==
    Success =>
        /\ favicon_path \in DOMAIN fs
        /\ fs[favicon_path].type = "ICO"
        /\ fs[favicon_path].frames = { <<16, 16>>, <<32, 32>>, <<48, 48>> }

\* The directory the web server serves: manifest.json is written one level
\* above the icons and linked as /manifest.json, the icons as /icons/<name>.
web_root == Resolve(Join(output_dir, <<"..">>))

UrlToPath(u) == Join(web_root, u)

\* C6: the icon list of manifest.json is as long as the web/PWA group of the
\* size catalog (8 entries), and every icon's src names a file of that group
\* whose pixel dimensions are the icon's sizes field.
C6_ManifestMatchesCatalog ==
    Success =>
        LET m == fs[Resolve(manifest_path)]
            pwa == { k \in DOMAIN SIZES : SIZES[k].group = "pwa" }
        IN  /\ m.type = "JSON"
            /\ Len(m.manifest.icons) = Cardinality(pwa)
            /\ Len(m.manifest.icons) = 8
            /\ \A n \in DOMAIN m.manifest.icons :
                  LET icon == m.manifest.icons[n]
                      file == UrlToPath(icon.src)
                  IN  /\ \E k \in pwa : SizePath(k) = file
                      /\ file \in Range(log.writes)
                      /\ fs[file].type = "PNG"
                      /\ icon.sizes = <<fs[file].w, fs[file].h>>
            /\ \A k \in pwa : \E n \in DOMAIN m.manifest.icons :
                  UrlToPath(m.manifest.icons[n].src) = SizePath(k)

\* A first run wrote the manifest where there was none.
C6_Witness ==
    /\ Success
    /\ Resolve(manifest_path) \notin DOMAIN fs0
    /\ Resolve(manifest_path) \in DOMAIN fs
    /\ fs[source_path].w # fs[source_path].h

\* C7: a second successful run over the unchanged source leaves the output
\* tree (the set of paths and the content of every file) as the first
\* successful run left it.
C7_SecondRunIdempotent ==
    (Success /\ run > 1) => (fs = fs0 /\ dirs = dirs0)

\* The second run returned 0 after writing every output again.
C7_Witness ==
    /\ Success
    /\ run > 1
    /\ log.writes = OutputOrder
    /\ fs[SizePath(1)].pix = fs[source_path].pix

\* C9: after a successful run, exactly one /icons/ link of the HTML snippet
\* names a file the run did not write, /icons/ios-icon-152x152.png; every
\* other link, /manifest.json included, names a file the run wrote.
C9_SnippetDanglingLink ==
    Success =>
        LET links == fs[html_path].links
            hrefs == { links[n].href : n \in DOMAIN links }
            dangling == { h \in hrefs : UrlToPath(h) \notin Range(log.writes) }
        IN  /\ dangling = { <<"icons", "ios-icon-152x152.png">> }
            /\ \A h \in dangling : UrlToPath(h) \notin DOMAIN fs \/ Unchanged(UrlToPath(h))
            /\ <<"manifest.json">> \in hrefs \ dangling

\* A first run wrote the snippet into a tree that has no file of the
\* dangling name.
C9_Witness ==
    /\ Success
    /\ html_path \notin DOMAIN fs0
    /\ html_path \in DOMAIN fs
    /\ UrlToPath(<<"icons", "ios-icon-152x152.png">>) \notin DOMAIN fs

\* C10: every image of Contents.json names a file of ios_mappings whose
\* pixel dimension is the entry's point size times its scale, and every
\* file of ios_mappings is named by exactly one entry.  (Point sizes are in
\* tenths of a point, hence the factor 10.)
C10_IconSetConsistent ==
    Success =>
        LET images == fs[contents_path].ios.images
        IN  /\ \A n \in DOMAIN images :
                  LET file == Join(ios_dir, <<images[n].filename>>)
                  IN  /\ \E k \in DOMAIN ios_mappings : IosPath(k) = file
                      /\ file \in Range(log.writes)
                      /\ 10 * fs[file].w = images[n].size[1] * images[n].scale
                      /\ 10 * fs[file].h = images[n].size[2] * images[n].scale
            /\ \A k \in DOMAIN ios_mappings :
                  Cardinality({ n \in DOMAIN images :
                                  images[n].filename = ios_mappings[k].name }) = 1

\* Sanity: a successful run leaves exactly what a complete pass writes.
SuccessWritesAll ==
    Success =>
        /\ fs = PutAll(fs0, OutputOrder, OutputContent(img))
        /\ dirs = dirs0 \cup OutputDirs

(***************************************************************************)
(* The export operations in any order.                                     *)
(*                                                                         *)
(* SpecPar runs the resize-and-export operations of the pass (every PNG    *)
(* and the favicon) with two workers over the loaded image: one takes the  *)
(* operations from the front of the program order, the other from the      *)
(* back, in any interleaving.  An operation is what the pass does for one  *)
(* file: the makedirs of the file's directory, then the resize and save.   *)
(***************************************************************************)
\* The positions in OutputOrder of the files that are resized images.
ExportOps ==
    SelectSeq([k \in 1..Len(OutputOrder) |-> k],
              LAMBDA k : OutputContent(NoImage)[k].type \in {"PNG", "ICO"})

ExportPath(n) == OutputOrder[ExportOps[n]]

ExportFile(im, n) == OutputContent(im)[ExportOps[n]]

ExportDir(n) == SubSeq(ExportPath(n), 1, Len(ExportPath(n)) - 1)

InitPar ==
    /\ pc = "par"
    /\ i = 0
    /\ rc = <<>>
    /\ run = 1
    /\ log = EmptyLog
    /\ par = [lo |-> 1, hi |-> Len(ExportOps), a |-> 0, b |-> 0, wrote |-> {}]
    /\ \E t \in DOMAIN Trees, s \in DOMAIN Sources :
          /\ Sources[s].header = "ok"
          /\ Sources[s].data = "ok"
          /\ OutputDirs \cap DOMAIN Trees[t].fs = {}
          /\ img = ConvertRGBA(ImageOpen(Sources[s]))
          /\ fs = Put(Trees[t].fs, source_path, Sources[s])
          /\ dirs = Trees[t].dirs \cup Prefixes(source_path, Len(source_path) - 1)
    /\ fs0 = fs
    /\ dirs0 = dirs

\* A worker takes operation n and creates the directory of its file.
ParMakeDirs(n) == dirs' = dirs \cup Prefixes(ExportDir(n), Len(ExportDir(n)))

\* A worker resizes the image and saves the file of operation n.
ParSave(n) ==
    /\ ExportDir(n) \in dirs
    /\ fs' = Put(fs, ExportPath(n), ExportFile(img, n))
    /\ log' = [log EXCEPT !.steps = @ + 1]

TakeFront ==
    /\ pc = "par"
    /\ par.a = 0
    /\ par.lo <= par.hi
    /\ ParMakeDirs(par.lo)
    /\ par' = [par EXCEPT !.a = par.lo, !.lo = par.lo + 1]
    /\ UNCHANGED <<pc, i, img, fs, rc, run, fs0, dirs0, log>>

SaveFront ==
    /\ pc = "par"
    /\ par.a # 0
    /\ ParSave(par.a)
    /\ par' = [par EXCEPT !.a = 0, !.wrote = @ \cup {ExportPath(par.a)}]
    /\ UNCHANGED <<pc, i, img, dirs, rc, run, fs0, dirs0>>

TakeBack ==
    /\ pc = "par"
    /\ par.b = 0
    /\ par.lo <= par.hi
    /\ ParMakeDirs(par.hi)
    /\ par' = [par EXCEPT !.b = par.hi, !.hi = par.hi - 1]
    /\ UNCHANGED <<pc, i, img, fs, rc, run, fs0, dirs0, log>>

SaveBack ==
    /\ pc = "par"
    /\ par.b # 0
    /\ ParSave(par.b)
    /\ par' = [par EXCEPT !.b = 0, !.wrote = @ \cup {ExportPath(par.b)}]
    /\ UNCHANGED <<pc, i, img, dirs, rc, run, fs0, dirs0>>

NextPar == TakeFront \/ SaveFront \/ TakeBack \/ SaveBack

SpecPar == InitPar /\ [][NextPar]_vars

ParDone == pc = "par" /\ par.lo > par.hi /\ par.a = 0 /\ par.b = 0

\* The tree the export operations leave when run one after the other in
\* program order.
SequentialExport ==
    PutAll(fs0, [n \in 1..Len(ExportOps) |-> ExportPath(n)],
           [n \in 1..Len(ExportOps) |-> ExportFile(img, n)])

\* C8: whatever the order and interleaving of the export operations, once
\* all of them are done the output tree is the one the sequential pass
\* leaves, and no two of them wrote the same path.
C8_ExportOrderIndependent ==
    ParDone =>
        /\ fs = SequentialExport
        /\ dirs = dirs0 \cup UNION { Prefixes(ExportDir(n), Len(ExportDir(n))) :
                                        n \in 1..Len(ExportOps) }
        /\ log.steps = Len(ExportOps)
        /\ Cardinality(par.wrote) = Len(ExportOps)

\* All operations are done, and the worker at the back took every one of
\* them: they ran in the reverse of the program order, over the tree of an
\* earlier run.
C8_Witness ==
    /\ ParDone
    /\ par.lo = 1
    /\ par.wrote \subseteq DOMAIN fs0

====
